---- MODULE Spec2Model ----
(***************************************************************************)
(* Shape and parameter model of the two notebooks                          *)
(*   notebooks/1.0-vgg-19.ipynb      (class VGG19)                         *)
(*   notebooks/1.2-mobile-net.ipynb  (classes DepthwiseSeparableConv,      *)
(*                                    MobileNet)                           *)
(* A tensor is modelled by its shape (a sequence of naturals); a module by *)
(* a record of its constructor arguments and children.  forward() is run   *)
(* as a call stack of module frames, one layer application per step.       *)
(***************************************************************************)
EXTENDS Integers, Sequences, FiniteSets, TLC

VARIABLES prog, cell, names, args, model, mode, stack, x, input, rows, ret,
          out, err, n_init, n_forward

vars == <<prog, cell, names, args, model, mode, stack, x, input, rows, ret,
          out, err, n_init, n_forward>>

---------------------------------------------------------------------------
(* Bounds of the model                                                     *)

MaxBatch == 2
MaxClasses == 2
SizeSlack == 1
MaxChannels == 2
MaxStride == 2
MaxSide == 3

(* Program constants                                                       *)

DefaultNumClasses == 1000
ImageSize == 224
ColorChannels == 3

---------------------------------------------------------------------------
(* Layer primitives: constructor arguments, with the framework defaults    *)
(* (stride 1, padding 0, groups 1, requires_grad True) filled in at the    *)
(* call sites that omit them.                                              *)

Conv2d(in_channels, out_channels, kernel_size, stride, padding, groups) ==
    [type |-> "Conv2d", in_channels |-> in_channels,
     out_channels |-> out_channels, kernel_size |-> kernel_size,
     stride |-> stride, padding |-> padding, groups |-> groups,
     requires_grad |-> TRUE]

MaxPool2d(kernel_size, stride) ==
    [type |-> "MaxPool2d", kernel_size |-> kernel_size, stride |-> stride]

Linear(in_features, out_features) ==
    [type |-> "Linear", in_features |-> in_features,
     out_features |-> out_features, requires_grad |-> TRUE]

ReLU == [type |-> "ReLU"]

Dropout == [type |-> "Dropout"]

AdaptiveAvgPool2d(output_size) ==
    [type |-> "AdaptiveAvgPool2d", output_size |-> output_size]

Sequential(layers) == [type |-> "Sequential", layers |-> layers]

(* Functional operations used inside forward(): they are no modules.       *)
FRelu == [type |-> "F.relu"]

View == [type |-> "view"]

NoModel == [type |-> "None"]

ModuleTypes == {"Conv2d", "MaxPool2d", "Linear", "ReLU", "Dropout",
                "AdaptiveAvgPool2d"}

CompositeTypes == {"Sequential", "VGG19", "DepthwiseSeparableConv",
                   "MobileNet"}

---------------------------------------------------------------------------
(* 1.0-vgg-19.ipynb: class VGG19                                           *)

(* faulty variant: padding=1 left out of the first convolution                    *)
feature_extractor_first_conv_unpadded ==
    Sequential(<<
        Conv2d(3, 64, 3, 1, 0, 1),
        ReLU,
        Conv2d(64, 64, 3, 1, 1, 1),
        ReLU,
        MaxPool2d(2, 2),
        Conv2d(64, 128, 3, 1, 1, 1),
        ReLU,
        Conv2d(128, 128, 3, 1, 1, 1),
        ReLU,
        MaxPool2d(2, 2),
        Conv2d(128, 256, 3, 1, 1, 1),
        ReLU,
        MaxPool2d(2, 2),
        Conv2d(256, 256, 3, 1, 1, 1),
        ReLU,
        Conv2d(256, 256, 3, 1, 1, 1),
        ReLU,
        Conv2d(256, 256, 3, 1, 1, 1),
        ReLU,
        MaxPool2d(2, 2),
        Conv2d(256, 512, 3, 1, 1, 1),
        ReLU,
        Conv2d(512, 512, 3, 1, 1, 1),
        ReLU,
        Conv2d(512, 512, 3, 1, 1, 1),
        ReLU,
        Conv2d(512, 512, 3, 1, 1, 1),
        ReLU,
        MaxPool2d(2, 2)
    >>)

feature_extractor ==
    Sequential(<<
        Conv2d(3, 64, 3, 1, 1, 1),
        ReLU,
        Conv2d(64, 64, 3, 1, 1, 1),
        ReLU,
        MaxPool2d(2, 2),
        Conv2d(64, 128, 3, 1, 1, 1),
        ReLU,
        Conv2d(128, 128, 3, 1, 1, 1),
        ReLU,
        MaxPool2d(2, 2),
        Conv2d(128, 256, 3, 1, 1, 1),
        ReLU,
        MaxPool2d(2, 2),
        Conv2d(256, 256, 3, 1, 1, 1),
        ReLU,
        Conv2d(256, 256, 3, 1, 1, 1),
        ReLU,
        Conv2d(256, 256, 3, 1, 1, 1),
        ReLU,
        MaxPool2d(2, 2),
        Conv2d(256, 512, 3, 1, 1, 1),
        ReLU,
        Conv2d(512, 512, 3, 1, 1, 1),
        ReLU,
        Conv2d(512, 512, 3, 1, 1, 1),
        ReLU,
        Conv2d(512, 512, 3, 1, 1, 1),
        ReLU,
        MaxPool2d(2, 2)
    >>)

(* faulty variant: the first Linear sized for the channel count alone              *)
classifier_unflattened(num_classes) ==
    Sequential(<<
        Linear(512, 4096),
        ReLU,
        Dropout,
        Linear(4096, 4096),
        ReLU,
        Dropout,
        Linear(4096, num_classes)
    >>)

(* faulty variant: the output layer ignores num_classes                            *)
classifier_fixed_classes(num_classes) ==
    Sequential(<<
        Linear(512 * 7 * 7, 4096),
        ReLU,
        Dropout,
        Linear(4096, 4096),
        ReLU,
        Dropout,
        Linear(4096, 1000)
    >>)

classifier(num_classes) ==
    Sequential(<<
        Linear(512 * 7 * 7, 4096),
        ReLU,
        Dropout,
        Linear(4096, 4096),
        ReLU,
        Dropout,
        Linear(4096, num_classes)
    >>)

VGG19(num_classes) ==
    [type |-> "VGG19",
     feature_extractor |-> feature_extractor,
     classifier |-> classifier(num_classes)]

---------------------------------------------------------------------------
(* 1.2-mobile-net.ipynb: classes DepthwiseSeparableConv and MobileNet      *)

(* faulty variant: the stride is given to the pointwise convolution                *)
DepthwiseSeparableConv_stride_on_pointwise(in_channels, out_channels, stride) ==
    [type |-> "DepthwiseSeparableConv",
     depthwise |-> Conv2d(in_channels, in_channels, 3, 1, 1, in_channels),
     pointwise |-> Conv2d(in_channels, out_channels, 1, stride, 0, 1)]

(* faulty variant: groups is left at its default, a full 3x3 convolution           *)
DepthwiseSeparableConv_ungrouped(in_channels, out_channels, stride) ==
    [type |-> "DepthwiseSeparableConv",
     depthwise |-> Conv2d(in_channels, in_channels, 3, stride, 1, 1),
     pointwise |-> Conv2d(in_channels, out_channels, 1, 1, 0, 1)]

DepthwiseSeparableConv(in_channels, out_channels, stride) ==
    [type |-> "DepthwiseSeparableConv",
     depthwise |-> Conv2d(in_channels, in_channels, 3, stride, 1, in_channels),
     pointwise |-> Conv2d(in_channels, out_channels, 1, 1, 0, 1)]

(* faulty variant: dw_conv6 built with stride 2                                   *)
MobileNet_dw_conv6_stride2(num_classes) ==
    [type |-> "MobileNet",
     conv1 |-> Conv2d(3, 32, 3, 2, 1, 1),
     dw_conv2 |-> DepthwiseSeparableConv(32, 64, 1),
     dw_conv3 |-> DepthwiseSeparableConv(64, 128, 2),
     dw_conv4 |-> DepthwiseSeparableConv(128, 128, 1),
     dw_conv5 |-> DepthwiseSeparableConv(128, 256, 2),
     dw_conv6 |-> DepthwiseSeparableConv(256, 256, 2),
     dw_conv7 |-> DepthwiseSeparableConv(256, 512, 2),
     dw_conv8 |-> DepthwiseSeparableConv(512, 512, 1),
     dw_conv9 |-> DepthwiseSeparableConv(512, 512, 1),
     dw_conv10 |-> DepthwiseSeparableConv(512, 512, 1),
     dw_conv11 |-> DepthwiseSeparableConv(512, 512, 1),
     dw_conv12 |-> DepthwiseSeparableConv(512, 512, 1),
     dw_conv13 |-> DepthwiseSeparableConv(512, 1024, 2),
     dw_conv14 |-> DepthwiseSeparableConv(1024, 1024, 1),
     avg_pool |-> AdaptiveAvgPool2d(1),
     fc |-> Linear(1024, num_classes)]

MobileNet(num_classes) ==
    [type |-> "MobileNet",
     conv1 |-> Conv2d(3, 32, 3, 2, 1, 1),
     dw_conv2 |-> DepthwiseSeparableConv(32, 64, 1),
     dw_conv3 |-> DepthwiseSeparableConv(64, 128, 2),
     dw_conv4 |-> DepthwiseSeparableConv(128, 128, 1),
     dw_conv5 |-> DepthwiseSeparableConv(128, 256, 2),
     dw_conv6 |-> DepthwiseSeparableConv(256, 256, 1),
     dw_conv7 |-> DepthwiseSeparableConv(256, 512, 2),
     dw_conv8 |-> DepthwiseSeparableConv(512, 512, 1),
     dw_conv9 |-> DepthwiseSeparableConv(512, 512, 1),
     dw_conv10 |-> DepthwiseSeparableConv(512, 512, 1),
     dw_conv11 |-> DepthwiseSeparableConv(512, 512, 1),
     dw_conv12 |-> DepthwiseSeparableConv(512, 512, 1),
     dw_conv13 |-> DepthwiseSeparableConv(512, 1024, 2),
     dw_conv14 |-> DepthwiseSeparableConv(1024, 1024, 1),
     avg_pool |-> AdaptiveAvgPool2d(1),
     fc |-> Linear(1024, num_classes)]

---------------------------------------------------------------------------
(* Children and forward bodies                                             *)

Step(name, op) == [name |-> name, op |-> op]

Children(m) ==
    CASE m.type = "Sequential" ->
            [i \in 1..Len(m.layers) |-> Step(ToString(i - 1), m.layers[i])]
      [] m.type = "VGG19" ->
            << Step("feature_extractor", m.feature_extractor),
               Step("classifier", m.classifier) >>
      [] m.type = "DepthwiseSeparableConv" ->
            << Step("depthwise", m.depthwise),
               Step("pointwise", m.pointwise) >>
      [] m.type = "MobileNet" ->
            << Step("conv1", m.conv1),
               Step("dw_conv2", m.dw_conv2), Step("dw_conv3", m.dw_conv3),
               Step("dw_conv4", m.dw_conv4), Step("dw_conv5", m.dw_conv5),
               Step("dw_conv6", m.dw_conv6), Step("dw_conv7", m.dw_conv7),
               Step("dw_conv8", m.dw_conv8), Step("dw_conv9", m.dw_conv9),
               Step("dw_conv10", m.dw_conv10), Step("dw_conv11", m.dw_conv11),
               Step("dw_conv12", m.dw_conv12), Step("dw_conv13", m.dw_conv13),
               Step("dw_conv14", m.dw_conv14),
               Step("avg_pool", m.avg_pool), Step("fc", m.fc) >>
      [] OTHER -> << >>

(* nn.Sequential.forward: the layers in order                              *)
SequentialForward(m) == Children(m)

VGG19Forward(m) ==
    << Step("feature_extractor", m.feature_extractor),
       Step("", View),
       Step("classifier", m.classifier) >>

DepthwiseSeparableConvForward(m) ==
    << Step("depthwise", m.depthwise),
       Step("pointwise", m.pointwise) >>

MobileNetForward(m) ==
    << Step("conv1", m.conv1), Step("", FRelu),
       Step("dw_conv2", m.dw_conv2), Step("", FRelu),
       Step("dw_conv3", m.dw_conv3), Step("", FRelu),
       Step("dw_conv4", m.dw_conv4), Step("", FRelu),
       Step("dw_conv5", m.dw_conv5), Step("", FRelu),
       Step("dw_conv6", m.dw_conv6), Step("", FRelu),
       Step("dw_conv7", m.dw_conv7), Step("", FRelu),
       Step("dw_conv8", m.dw_conv8), Step("", FRelu),
       Step("dw_conv9", m.dw_conv9), Step("", FRelu),
       Step("dw_conv10", m.dw_conv10), Step("", FRelu),
       Step("dw_conv11", m.dw_conv11), Step("", FRelu),
       Step("dw_conv12", m.dw_conv12), Step("", FRelu),
       Step("dw_conv13", m.dw_conv13), Step("", FRelu),
       Step("dw_conv14", m.dw_conv14), Step("", FRelu),
       Step("avg_pool", m.avg_pool),
       Step("", View),
       Step("fc", m.fc) >>

ForwardBody(m) ==
    CASE m.type = "Sequential" -> SequentialForward(m)
      [] m.type = "VGG19" -> VGG19Forward(m)
      [] m.type = "DepthwiseSeparableConv" -> DepthwiseSeparableConvForward(m)
      [] m.type = "MobileNet" -> MobileNetForward(m)
      [] OTHER -> << >>

---------------------------------------------------------------------------
(* Shapes.  Invalid stands for the RuntimeError the framework raises on a  *)
(* shape it cannot accept.                                                 *)

Invalid == << >>

RECURSIVE Prod(_)
Prod(s) == IF s = << >> THEN 1 ELSE Head(s) * Prod(Tail(s))

(* faulty variant: the output size computed as if the stride were 1                *)
Conv2dOut_ignores_stride(l, s) ==
    IF \/ Len(s) # 4
       \/ s[2] # l.in_channels
       \/ s[3] + 2 * l.padding < l.kernel_size
       \/ s[4] + 2 * l.padding < l.kernel_size
    THEN Invalid
    ELSE << s[1], l.out_channels,
            (s[3] + 2 * l.padding - l.kernel_size) + 1,
            (s[4] + 2 * l.padding - l.kernel_size) + 1 >>

(* nn.Conv2d on (N, C, H, W): floor((H + 2p - k) / s) + 1                  *)
Conv2dOut(l, s) ==
    IF \/ Len(s) # 4
       \/ s[2] # l.in_channels
       \/ s[3] + 2 * l.padding < l.kernel_size
       \/ s[4] + 2 * l.padding < l.kernel_size
    THEN Invalid
    ELSE << s[1], l.out_channels,
            ((s[3] + 2 * l.padding - l.kernel_size) \div l.stride) + 1,
            ((s[4] + 2 * l.padding - l.kernel_size) \div l.stride) + 1 >>

(* nn.MaxPool2d on (N, C, H, W), no padding, floor mode                    *)
MaxPool2dOut(l, s) ==
    IF \/ Len(s) # 4
       \/ s[3] < l.kernel_size
       \/ s[4] < l.kernel_size
    THEN Invalid
    ELSE << s[1], s[2],
            ((s[3] - l.kernel_size) \div l.stride) + 1,
            ((s[4] - l.kernel_size) \div l.stride) + 1 >>

(* nn.Linear acts on the last dimension                                    *)
LinearOut(l, s) ==
    IF s = << >> \/ s[Len(s)] # l.in_features
    THEN Invalid
    ELSE [s EXCEPT ![Len(s)] = l.out_features]

AdaptiveAvgPool2dOut(l, s) ==
    IF Len(s) # 4 THEN Invalid
    ELSE << s[1], s[2], l.output_size, l.output_size >>

(* x.view(x.size(0), -1)                                                   *)
ViewOut(s) ==
    IF s = << >> \/ s[1] = 0 THEN Invalid
    ELSE << s[1], Prod(Tail(s)) >>

---------------------------------------------------------------------------
(* Parameter counts, as the summary's "Param #" column counts them         *)

OwnParams(op) ==
    CASE op.type = "Conv2d" ->
            op.out_channels * (op.in_channels \div op.groups)
                * op.kernel_size * op.kernel_size
            + op.out_channels
      [] op.type = "Linear" ->
            op.in_features * op.out_features + op.out_features
      [] OTHER -> 0

RECURSIVE SumParams(_, _, _)
SumParams(steps, i, trainable_only) ==
    IF i > Len(steps) THEN 0
    ELSE LET op == steps[i].op
             own == IF trainable_only
                       /\ op.type \in {"Conv2d", "Linear"}
                       /\ ~op.requires_grad
                    THEN 0 ELSE OwnParams(op)
         IN  own + SumParams(Children(op), 1, trainable_only)
                 + SumParams(steps, i + 1, trainable_only)

TotalParams(m) == SumParams(Children(m), 1, FALSE)

TrainableParams(m) == SumParams(Children(m), 1, TRUE)

Row(depth, type, name, in, o, params) ==
    [depth |-> depth, type |-> type, name |-> name,
     input |-> in, output |-> o, params |-> params]

---------------------------------------------------------------------------
(* The notebooks' code cells, top to bottom.  uses: the global names the   *)
(* cell resolves while it runs (the bodies of __init__ and forward         *)
(* included); defines: the names it binds; shows: it displays a shape.     *)

Cell(kind, uses, defines, shows) ==
    [kind |-> kind, uses |-> uses, defines |-> defines, shows |-> shows]

(* faulty variant: the summary cell placed before the cell that builds the model   *)
VGGCells_summary_first ==
    << Cell("import", {}, {"torch", "nn", "summary"}, FALSE),
       Cell("class", {"nn"}, {"VGG19"}, FALSE),
       Cell("summary", {"summary", "model"}, {}, FALSE),
       Cell("instantiate", {"VGG19", "nn"}, {"model"}, FALSE),
       Cell("forward", {"model", "torch"}, {}, TRUE),
       Cell("empty", {}, {}, FALSE) >>

VGGCells ==
    << Cell("import", {}, {"torch", "nn", "summary"}, FALSE),
       Cell("class", {"nn"}, {"VGG19"}, FALSE),
       Cell("instantiate", {"VGG19", "nn"}, {"model"}, FALSE),
       Cell("summary", {"summary", "model"}, {}, FALSE),
       Cell("forward", {"model", "torch"}, {}, TRUE),
       Cell("empty", {}, {}, FALSE) >>

MobileNetCells ==
    << Cell("import", {}, {"torch", "nn", "F", "summary"}, FALSE),
       Cell("class", {"nn"}, {"DepthwiseSeparableConv", "MobileNet"}, FALSE),
       Cell("instantiate", {"MobileNet", "DepthwiseSeparableConv", "nn"},
            {"model"}, FALSE),
       Cell("summary", {"summary", "model", "F"}, {}, FALSE),
       Cell("forward", {"model", "torch", "F"}, {"output"}, FALSE),
       Cell("shape", {"output"}, {}, TRUE),
       Cell("argmax", {"torch", "output"}, {}, FALSE),
       Cell("empty", {}, {}, FALSE) >>

Notebooks == {"1.0-vgg-19", "1.2-mobile-net"}

Cells(nb) == IF nb = "1.0-vgg-19" THEN VGGCells ELSE MobileNetCells

(* Constructor calls: the class and its arguments                          *)
NoArgs == [class |-> "None"]

VGG19Args(num_classes) == [class |-> "VGG19", num_classes |-> num_classes]

MobileNetArgs(num_classes) ==
    [class |-> "MobileNet", num_classes |-> num_classes]

DepthwiseSeparableConvArgs(in_channels, out_channels, stride) ==
    [class |-> "DepthwiseSeparableConv", in_channels |-> in_channels,
     out_channels |-> out_channels, stride |-> stride]

Construct(a) ==
    CASE a.class = "VGG19" -> VGG19(a.num_classes)
      [] a.class = "MobileNet" -> MobileNet(a.num_classes)
      [] a.class = "DepthwiseSeparableConv" ->
            DepthwiseSeparableConv(a.in_channels, a.out_channels, a.stride)
      [] OTHER -> NoModel

(* model = VGG19()  /  model = MobileNet(): num_classes takes its default  *)
InstantiateArgs(nb) ==
    IF nb = "1.0-vgg-19" THEN VGG19Args(DefaultNumClasses)
    ELSE MobileNetArgs(DefaultNumClasses)

(* (1, 3, 224, 224): input_size of summary and the torch.randn argument    *)
NotebookInput == << 1, ColorChannels, ImageSize, ImageSize >>

NoOut == [cell |-> 0, value |-> << >>]

Frame(m, arg, row) == [mod |-> m, pc |-> 1, arg |-> arg, row |-> row]

---------------------------------------------------------------------------
(* Initial states                                                          *)

NumClassesChoices == (1..MaxClasses) \cup {DefaultNumClasses}

Sides == (ImageSize - SizeSlack)..(ImageSize + SizeSlack)

(* A call model(x) on a constructed module                                 *)
Called(a, arg) ==
    /\ prog = a.class
    /\ args = a
    /\ model = Construct(a)
    /\ x = arg
    /\ input = arg
    /\ stack = << Frame(Construct(a), arg, 0) >>
    /\ mode = "forward"
    /\ cell = 0
    /\ names = {}
    /\ rows = << >>
    /\ ret = << >>
    /\ out = NoOut
    /\ err = ""
    /\ n_init = 1
    /\ n_forward = 1

Init ==
    \E N \in 1..MaxBatch :
       \/ \E nc \in NumClassesChoices, H \in Sides, W \in Sides :
             \/ Called(VGG19Args(nc), << N, ColorChannels, H, W >>)
             \/ Called(MobileNetArgs(nc), << N, ColorChannels, H, W >>)
       \/ \E ci \in 1..MaxChannels, co \in 1..MaxChannels,
             C \in 1..MaxChannels, s \in 1..MaxStride,
             H \in 1..MaxSide, W \in 1..MaxSide :
             Called(DepthwiseSeparableConvArgs(ci, co, s), << N, C, H, W >>)

InitNotebook ==
    /\ prog \in Notebooks
    /\ cell = 1
    /\ names = {}
    /\ args = NoArgs
    /\ model = NoModel
    /\ mode = "idle"
    /\ stack = << >>
    /\ x = << >>
    /\ input = << >>
    /\ rows = << >>
    /\ ret = << >>
    /\ out = NoOut
    /\ err = ""
    /\ n_init = 0
    /\ n_forward = 0

---------------------------------------------------------------------------
(* forward(): one step of the innermost running module                     *)

Top == stack[Len(stack)]

Body == ForwardBody(Top.mod)

Running == stack # << >> /\ err = ""

AtStep == Running /\ Top.pc <= Len(Body)

Cur == Body[Top.pc]

(* the exception leaves forward() and, in a notebook, stops the cell       *)
Raise ==
    /\ err' = "RuntimeError"
    /\ stack' = << >>
    /\ mode' = "idle"
    /\ UNCHANGED <<args, prog, cell, names, model, x, input, rows, ret, out,
                   n_init, n_forward>>

Advance(y) ==
    IF y = Invalid THEN Raise
    ELSE /\ x' = y
         /\ stack' = [stack EXCEPT ![Len(stack)].pc = @ + 1]
         /\ rows' = IF mode = "summary" /\ Cur.op.type \in ModuleTypes
                    THEN Append(rows, Row(Len(stack), Cur.op.type, Cur.name,
                                          x, y, OwnParams(Cur.op)))
                    ELSE rows
         /\ UNCHANGED <<args, prog, cell, names, model, mode, input, ret, out, err,
                        n_init, n_forward>>

ApplyConv2d ==
    /\ AtStep
    /\ Cur.op.type = "Conv2d"
    /\ Advance(Conv2dOut(Cur.op, x))

ApplyReLU ==
    /\ AtStep
    /\ Cur.op.type = "ReLU"
    /\ Advance(x)

ApplyMaxPool2d ==
    /\ AtStep
    /\ Cur.op.type = "MaxPool2d"
    /\ Advance(MaxPool2dOut(Cur.op, x))

ApplyLinear ==
    /\ AtStep
    /\ Cur.op.type = "Linear"
    /\ Advance(LinearOut(Cur.op, x))

ApplyDropout ==
    /\ AtStep
    /\ Cur.op.type = "Dropout"
    /\ Advance(x)

ApplyAdaptiveAvgPool2d ==
    /\ AtStep
    /\ Cur.op.type = "AdaptiveAvgPool2d"
    /\ Advance(AdaptiveAvgPool2dOut(Cur.op, x))

ApplyFRelu ==
    /\ AtStep
    /\ Cur.op.type = "F.relu"
    /\ Advance(x)

ApplyView ==
    /\ AtStep
    /\ Cur.op.type = "view"
    /\ Advance(ViewOut(x))

(* a child that is itself a container: its forward() is entered            *)
CallModule ==
    /\ AtStep
    /\ Cur.op.type \in CompositeTypes
    /\ stack' = Append(stack, Frame(Cur.op, x, Len(rows) + 1))
    /\ rows' = IF mode = "summary"
               THEN Append(rows, Row(Len(stack), Cur.op.type, Cur.name,
                                     x, << >>, 0))
               ELSE rows
    /\ UNCHANGED <<args, prog, cell, names, model, mode, x, input, ret, out, err,
                   n_init, n_forward>>

(* an inner forward() returns x to its caller                              *)
ReturnModule ==
    /\ Running
    /\ Len(stack) > 1
    /\ Top.pc > Len(Body)
    /\ stack' = [SubSeq(stack, 1, Len(stack) - 1)
                    EXCEPT ![Len(stack) - 1].pc = @ + 1]
    /\ rows' = IF mode = "summary"
               THEN [rows EXCEPT ![Top.row].output = x]
               ELSE rows
    /\ UNCHANGED <<args, prog, cell, names, model, mode, x, input, ret, out, err,
                   n_init, n_forward>>

(* the model's forward() returns; in a notebook the cell ends              *)
ReturnForward ==
    /\ Running
    /\ Len(stack) = 1
    /\ Top.pc > Len(Body)
    /\ stack' = << >>
    /\ mode' = "idle"
    /\ rows' = IF mode = "summary"
               THEN [rows EXCEPT ![Top.row].output = x]
               ELSE rows
    /\ ret' = IF mode = "forward" THEN x ELSE ret
    /\ IF cell > 0
       THEN /\ cell' = cell + 1
            /\ names' = names \cup Cells(prog)[cell].defines
            /\ out' = IF Cells(prog)[cell].shows
                      THEN [cell |-> cell, value |-> x]
                      ELSE out
       ELSE UNCHANGED <<cell, names, out>>
    /\ UNCHANGED <<args, prog, model, x, input, err, n_init, n_forward>>

ForwardStep ==
    \/ ApplyConv2d
    \/ ApplyReLU
    \/ ApplyMaxPool2d
    \/ ApplyLinear
    \/ ApplyDropout
    \/ ApplyAdaptiveAvgPool2d
    \/ ApplyFRelu
    \/ ApplyView
    \/ CallModule
    \/ ReturnModule
    \/ ReturnForward

---------------------------------------------------------------------------
(* Notebook cells                                                          *)

CanRun(kind) ==
    /\ prog \in Notebooks
    /\ stack = << >>
    /\ err = ""
    /\ cell <= Len(Cells(prog))
    /\ Cells(prog)[cell].kind = kind

ThisCell == Cells(prog)[cell]

NameError ==
    /\ err' = "NameError"
    /\ UNCHANGED <<args, prog, cell, names, model, mode, stack, x, input, rows,
                   ret, out, n_init, n_forward>>

(* cells that only bind names: import ..., class ...                       *)
RunImport ==
    /\ CanRun("import")
    /\ names' = names \cup ThisCell.defines
    /\ cell' = cell + 1
    /\ UNCHANGED <<args, prog, model, mode, stack, x, input, rows, ret, out, err,
                   n_init, n_forward>>

RunClass ==
    /\ CanRun("class")
    /\ IF ThisCell.uses \subseteq names
       THEN /\ names' = names \cup ThisCell.defines
            /\ cell' = cell + 1
            /\ UNCHANGED <<args, prog, model, mode, stack, x, input, rows, ret,
                           out, err, n_init, n_forward>>
       ELSE NameError

RunInstantiate ==
    /\ CanRun("instantiate")
    /\ IF ThisCell.uses \subseteq names
       THEN /\ args' = InstantiateArgs(prog)
            /\ model' = Construct(InstantiateArgs(prog))
            /\ names' = names \cup ThisCell.defines
            /\ n_init' = n_init + 1
            /\ cell' = cell + 1
            /\ UNCHANGED <<prog, mode, stack, x, input, rows, ret, out, err,
                           n_forward>>
       ELSE NameError

(* summary(model=model, input_size=(1, 3, 224, 224), ...): the utility     *)
(* passes an input of that size through the model and records one row per  *)
(* module                                                                  *)
RunSummary ==
    /\ CanRun("summary")
    /\ IF ThisCell.uses \subseteq names
       THEN /\ mode' = "summary"
            /\ x' = NotebookInput
            /\ stack' = << Frame(model, NotebookInput, 1) >>
            /\ rows' = << Row(0, model.type, model.type, NotebookInput,
                              << >>, 0) >>
            /\ UNCHANGED <<args, prog, cell, names, model, input, ret, out, err,
                           n_init, n_forward>>
       ELSE NameError

(* model(torch.randn((1, 3, 224, 224)))                                    *)
RunForward ==
    /\ CanRun("forward")
    /\ IF ThisCell.uses \subseteq names
       THEN /\ mode' = "forward"
            /\ x' = NotebookInput
            /\ input' = NotebookInput
            /\ stack' = << Frame(model, NotebookInput, 0) >>
            /\ n_forward' = n_forward + 1
            /\ UNCHANGED <<args, prog, cell, names, model, rows, ret, out, err,
                           n_init>>
       ELSE NameError

(* output.shape                                                            *)
RunShape ==
    /\ CanRun("shape")
    /\ IF ThisCell.uses \subseteq names
       THEN /\ out' = [cell |-> cell, value |-> ret]
            /\ cell' = cell + 1
            /\ UNCHANGED <<args, prog, names, model, mode, stack, x, input, rows,
                           ret, err, n_init, n_forward>>
       ELSE NameError

(* torch.argmax(output): a 0-dimensional tensor                            *)
RunArgmax ==
    /\ CanRun("argmax")
    /\ IF ThisCell.uses \subseteq names
       THEN /\ out' = [cell |-> cell, value |-> << >>]
            /\ cell' = cell + 1
            /\ UNCHANGED <<args, prog, names, model, mode, stack, x, input, rows,
                           ret, err, n_init, n_forward>>
       ELSE NameError

RunEmpty ==
    /\ CanRun("empty")
    /\ cell' = cell + 1
    /\ UNCHANGED <<args, prog, names, model, mode, stack, x, input, rows, ret, out,
                   err, n_init, n_forward>>

---------------------------------------------------------------------------
Next == ForwardStep

Spec == Init /\ [][Next]_vars

NextNotebook ==
    \/ RunImport
    \/ RunClass
    \/ RunInstantiate
    \/ RunSummary
    \/ RunForward
    \/ RunShape
    \/ RunArgmax
    \/ RunEmpty
    \/ ForwardStep

SpecNotebook == InitNotebook /\ [][NextNotebook]_vars

---------------------------------------------------------------------------
(* The outputs recorded in the notebooks: the summary tables (one row per  *)
(* module, "--" in the Param # column written 0) and their totals          *)

VGGSummaryOutput ==
    << Row(0, "VGG19", "VGG19", <<1, 3, 224, 224>>, <<1, 1000>>, 0),
       Row(1, "Sequential", "feature_extractor", <<1, 3, 224, 224>>, <<1, 512, 7, 7>>, 0),
       Row(2, "Conv2d", "0", <<1, 3, 224, 224>>, <<1, 64, 224, 224>>, 1792),
       Row(2, "ReLU", "1", <<1, 64, 224, 224>>, <<1, 64, 224, 224>>, 0),
       Row(2, "Conv2d", "2", <<1, 64, 224, 224>>, <<1, 64, 224, 224>>, 36928),
       Row(2, "ReLU", "3", <<1, 64, 224, 224>>, <<1, 64, 224, 224>>, 0),
       Row(2, "MaxPool2d", "4", <<1, 64, 224, 224>>, <<1, 64, 112, 112>>, 0),
       Row(2, "Conv2d", "5", <<1, 64, 112, 112>>, <<1, 128, 112, 112>>, 73856),
       Row(2, "ReLU", "6", <<1, 128, 112, 112>>, <<1, 128, 112, 112>>, 0),
       Row(2, "Conv2d", "7", <<1, 128, 112, 112>>, <<1, 128, 112, 112>>, 147584),
       Row(2, "ReLU", "8", <<1, 128, 112, 112>>, <<1, 128, 112, 112>>, 0),
       Row(2, "MaxPool2d", "9", <<1, 128, 112, 112>>, <<1, 128, 56, 56>>, 0),
       Row(2, "Conv2d", "10", <<1, 128, 56, 56>>, <<1, 256, 56, 56>>, 295168),
       Row(2, "ReLU", "11", <<1, 256, 56, 56>>, <<1, 256, 56, 56>>, 0),
       Row(2, "MaxPool2d", "12", <<1, 256, 56, 56>>, <<1, 256, 28, 28>>, 0),
       Row(2, "Conv2d", "13", <<1, 256, 28, 28>>, <<1, 256, 28, 28>>, 590080),
       Row(2, "ReLU", "14", <<1, 256, 28, 28>>, <<1, 256, 28, 28>>, 0),
       Row(2, "Conv2d", "15", <<1, 256, 28, 28>>, <<1, 256, 28, 28>>, 590080),
       Row(2, "ReLU", "16", <<1, 256, 28, 28>>, <<1, 256, 28, 28>>, 0),
       Row(2, "Conv2d", "17", <<1, 256, 28, 28>>, <<1, 256, 28, 28>>, 590080),
       Row(2, "ReLU", "18", <<1, 256, 28, 28>>, <<1, 256, 28, 28>>, 0),
       Row(2, "MaxPool2d", "19", <<1, 256, 28, 28>>, <<1, 256, 14, 14>>, 0),
       Row(2, "Conv2d", "20", <<1, 256, 14, 14>>, <<1, 512, 14, 14>>, 1180160),
       Row(2, "ReLU", "21", <<1, 512, 14, 14>>, <<1, 512, 14, 14>>, 0),
       Row(2, "Conv2d", "22", <<1, 512, 14, 14>>, <<1, 512, 14, 14>>, 2359808),
       Row(2, "ReLU", "23", <<1, 512, 14, 14>>, <<1, 512, 14, 14>>, 0),
       Row(2, "Conv2d", "24", <<1, 512, 14, 14>>, <<1, 512, 14, 14>>, 2359808),
       Row(2, "ReLU", "25", <<1, 512, 14, 14>>, <<1, 512, 14, 14>>, 0),
       Row(2, "Conv2d", "26", <<1, 512, 14, 14>>, <<1, 512, 14, 14>>, 2359808),
       Row(2, "ReLU", "27", <<1, 512, 14, 14>>, <<1, 512, 14, 14>>, 0),
       Row(2, "MaxPool2d", "28", <<1, 512, 14, 14>>, <<1, 512, 7, 7>>, 0),
       Row(1, "Sequential", "classifier", <<1, 25088>>, <<1, 1000>>, 0),
       Row(2, "Linear", "0", <<1, 25088>>, <<1, 4096>>, 102764544),
       Row(2, "ReLU", "1", <<1, 4096>>, <<1, 4096>>, 0),
       Row(2, "Dropout", "2", <<1, 4096>>, <<1, 4096>>, 0),
       Row(2, "Linear", "3", <<1, 4096>>, <<1, 4096>>, 16781312),
       Row(2, "ReLU", "4", <<1, 4096>>, <<1, 4096>>, 0),
       Row(2, "Dropout", "5", <<1, 4096>>, <<1, 4096>>, 0),
       Row(2, "Linear", "6", <<1, 4096>>, <<1, 1000>>, 4097000) >>

MobileNetSummaryOutput ==
    << Row(0, "MobileNet", "MobileNet", <<1, 3, 224, 224>>, <<1, 1000>>, 0),
       Row(1, "Conv2d", "conv1", <<1, 3, 224, 224>>, <<1, 32, 112, 112>>, 896),
       Row(1, "DepthwiseSeparableConv", "dw_conv2", <<1, 32, 112, 112>>, <<1, 64, 112, 112>>, 0),
       Row(2, "Conv2d", "depthwise", <<1, 32, 112, 112>>, <<1, 32, 112, 112>>, 320),
       Row(2, "Conv2d", "pointwise", <<1, 32, 112, 112>>, <<1, 64, 112, 112>>, 2112),
       Row(1, "DepthwiseSeparableConv", "dw_conv3", <<1, 64, 112, 112>>, <<1, 128, 56, 56>>, 0),
       Row(2, "Conv2d", "depthwise", <<1, 64, 112, 112>>, <<1, 64, 56, 56>>, 640),
       Row(2, "Conv2d", "pointwise", <<1, 64, 56, 56>>, <<1, 128, 56, 56>>, 8320),
       Row(1, "DepthwiseSeparableConv", "dw_conv4", <<1, 128, 56, 56>>, <<1, 128, 56, 56>>, 0),
       Row(2, "Conv2d", "depthwise", <<1, 128, 56, 56>>, <<1, 128, 56, 56>>, 1280),
       Row(2, "Conv2d", "pointwise", <<1, 128, 56, 56>>, <<1, 128, 56, 56>>, 16512),
       Row(1, "DepthwiseSeparableConv", "dw_conv5", <<1, 128, 56, 56>>, <<1, 256, 28, 28>>, 0),
       Row(2, "Conv2d", "depthwise", <<1, 128, 56, 56>>, <<1, 128, 28, 28>>, 1280),
       Row(2, "Conv2d", "pointwise", <<1, 128, 28, 28>>, <<1, 256, 28, 28>>, 33024),
       Row(1, "DepthwiseSeparableConv", "dw_conv6", <<1, 256, 28, 28>>, <<1, 256, 28, 28>>, 0),
       Row(2, "Conv2d", "depthwise", <<1, 256, 28, 28>>, <<1, 256, 28, 28>>, 2560),
       Row(2, "Conv2d", "pointwise", <<1, 256, 28, 28>>, <<1, 256, 28, 28>>, 65792),
       Row(1, "DepthwiseSeparableConv", "dw_conv7", <<1, 256, 28, 28>>, <<1, 512, 14, 14>>, 0),
       Row(2, "Conv2d", "depthwise", <<1, 256, 28, 28>>, <<1, 256, 14, 14>>, 2560),
       Row(2, "Conv2d", "pointwise", <<1, 256, 14, 14>>, <<1, 512, 14, 14>>, 131584),
       Row(1, "DepthwiseSeparableConv", "dw_conv8", <<1, 512, 14, 14>>, <<1, 512, 14, 14>>, 0),
       Row(2, "Conv2d", "depthwise", <<1, 512, 14, 14>>, <<1, 512, 14, 14>>, 5120),
       Row(2, "Conv2d", "pointwise", <<1, 512, 14, 14>>, <<1, 512, 14, 14>>, 262656),
       Row(1, "DepthwiseSeparableConv", "dw_conv9", <<1, 512, 14, 14>>, <<1, 512, 14, 14>>, 0),
       Row(2, "Conv2d", "depthwise", <<1, 512, 14, 14>>, <<1, 512, 14, 14>>, 5120),
       Row(2, "Conv2d", "pointwise", <<1, 512, 14, 14>>, <<1, 512, 14, 14>>, 262656),
       Row(1, "DepthwiseSeparableConv", "dw_conv10", <<1, 512, 14, 14>>, <<1, 512, 14, 14>>, 0),
       Row(2, "Conv2d", "depthwise", <<1, 512, 14, 14>>, <<1, 512, 14, 14>>, 5120),
       Row(2, "Conv2d", "pointwise", <<1, 512, 14, 14>>, <<1, 512, 14, 14>>, 262656),
       Row(1, "DepthwiseSeparableConv", "dw_conv11", <<1, 512, 14, 14>>, <<1, 512, 14, 14>>, 0),
       Row(2, "Conv2d", "depthwise", <<1, 512, 14, 14>>, <<1, 512, 14, 14>>, 5120),
       Row(2, "Conv2d", "pointwise", <<1, 512, 14, 14>>, <<1, 512, 14, 14>>, 262656),
       Row(1, "DepthwiseSeparableConv", "dw_conv12", <<1, 512, 14, 14>>, <<1, 512, 14, 14>>, 0),
       Row(2, "Conv2d", "depthwise", <<1, 512, 14, 14>>, <<1, 512, 14, 14>>, 5120),
       Row(2, "Conv2d", "pointwise", <<1, 512, 14, 14>>, <<1, 512, 14, 14>>, 262656),
       Row(1, "DepthwiseSeparableConv", "dw_conv13", <<1, 512, 14, 14>>, <<1, 1024, 7, 7>>, 0),
       Row(2, "Conv2d", "depthwise", <<1, 512, 14, 14>>, <<1, 512, 7, 7>>, 5120),
       Row(2, "Conv2d", "pointwise", <<1, 512, 7, 7>>, <<1, 1024, 7, 7>>, 525312),
       Row(1, "DepthwiseSeparableConv", "dw_conv14", <<1, 1024, 7, 7>>, <<1, 1024, 7, 7>>, 0),
       Row(2, "Conv2d", "depthwise", <<1, 1024, 7, 7>>, <<1, 1024, 7, 7>>, 10240),
       Row(2, "Conv2d", "pointwise", <<1, 1024, 7, 7>>, <<1, 1024, 7, 7>>, 1049600),
       Row(1, "AdaptiveAvgPool2d", "avg_pool", <<1, 1024, 7, 7>>, <<1, 1024, 1, 1>>, 0),
       Row(1, "Linear", "fc", <<1, 1024>>, <<1, 1000>>, 1025000) >>

VGGTotalParams == 134228008
VGGTrainableParams == 134228008
VGGNonTrainableParams == 0
MobileNetTotalParams == 4221032
MobileNetTrainableParams == 4221032
MobileNetNonTrainableParams == 0

---------------------------------------------------------------------------
(* Properties                                                              *)

CountType(layers, T) ==
    Cardinality({i \in 1..Len(layers) : layers[i].type = T})

PoolsBefore(layers, i) ==
    Cardinality({j \in 1..(i - 1) : layers[j].type = "MaxPool2d"})

RECURSIVE Halve(_, _)
Halve(h, k) == IF k = 0 THEN h ELSE Halve(h \div 2, k - 1)

RECURSIVE SeqSum(_)
SeqSum(s) == IF s = << >> THEN 0 ELSE Head(s) + SeqSum(Tail(s))

Square(s) == s[3] = ImageSize /\ s[4] = ImageSize

(* C1: VGG19 has 19 weighted layers: exactly 16 Conv2d layers in           *)
(* feature_extractor and exactly 3 Linear layers in classifier.            *)
C1_NineteenWeightedLayers ==
    prog = "VGG19" =>
        /\ CountType(model.feature_extractor.layers, "Conv2d") = 16
        /\ CountType(model.classifier.layers, "Linear") = 3

BlockChannels == << 64, 128, 256, 512, 512 >>

(* C2: in feature_extractor there are five MaxPool2d layers, and every     *)
(* Conv2d of the k-th block they delimit has BlockChannels[k] output       *)
(* channels.                                                               *)
C2_BlockChannels ==
    prog = "VGG19" =>
        LET L == model.feature_extractor.layers
        IN  /\ CountType(L, "MaxPool2d") = 5
            /\ \A i \in 1..Len(L) :
                  L[i].type = "Conv2d" =>
                     /\ PoolsBefore(L, i) + 1 <= Len(BlockChannels)
                     /\ L[i].out_channels = BlockChannels[PoolsBefore(L, i) + 1]

(* C3: VGG19(num_classes).forward on (N, 3, 224, 224) raises nothing and   *)
(* returns (N, num_classes); with the default num_classes and N = 1 that   *)
(* is the output shape of the summary's first row.                         *)
C3_OutputShape ==
    (prog = "VGG19" /\ Square(input)) =>
        /\ err = ""
        /\ stack = << >> => ret = << input[1], args.num_classes >>
        /\ (stack = << >> /\ args.num_classes = DefaultNumClasses
              /\ input[1] = 1) => ret = VGGSummaryOutput[1].output

C3_Witness ==
    /\ prog = "VGG19"
    /\ input = << 2, 3, 224, 224 >>
    /\ args.num_classes = 2
    /\ stack = << >>
    /\ ret = << 2, 2 >>

(* C4: for a 224x224 input the feature extractor returns (N, 512, 7, 7)    *)
(* and the view returns (N, 25088), 25088 = 512*7*7 being the in_features  *)
(* of the classifier's first Linear.                                       *)
C4_FlattenedSize ==
    (prog = "VGG19" /\ Square(input) /\ Len(stack) = 1) =>
        /\ Top.pc = 2 => x = << input[1], 512, 7, 7 >>
        /\ Top.pc = 3 =>
              /\ x = << input[1], 25088 >>
              /\ x[2] = 512 * 7 * 7
              /\ x[2] = model.classifier.layers[1].in_features

C4_Witness ==
    /\ prog = "VGG19"
    /\ Len(stack) = 1
    /\ Top.pc = 3
    /\ x = << 1, 25088 >>

PoolSizes == << 224, 112, 56, 28, 14, 7 >>

(* C5: every Conv2d of VGG19 is 3x3, padding 1, stride 1 and every         *)
(* MaxPool2d 2x2, stride 2; at every point of the feature extractor the    *)
(* height and width are the input's halved (rounding down) once per        *)
(* pooling layer passed, whatever the number of convolutions passed; for   *)
(* 224 that is 224, 112, 56, 28, 14, 7.                                    *)
C5_ConvKeepsPoolHalves ==
    prog = "VGG19" =>
        LET L == model.feature_extractor.layers
        IN  /\ \A i \in 1..Len(L) :
                  /\ L[i].type = "Conv2d" =>
                        /\ L[i].kernel_size = 3
                        /\ L[i].padding = 1
                        /\ L[i].stride = 1
                  /\ L[i].type = "MaxPool2d" =>
                        /\ L[i].kernel_size = 2
                        /\ L[i].stride = 2
            /\ (Len(stack) = 2 /\ Top.mod.type = "Sequential"
                  /\ Len(Top.arg) = 4) =>
                  LET k == PoolsBefore(L, Top.pc)
                  IN  /\ x[3] = Halve(input[3], k)
                      /\ x[4] = Halve(input[4], k)
                      /\ input[3] = ImageSize => x[3] = PoolSizes[k + 1]
                      /\ input[4] = ImageSize => x[4] = PoolSizes[k + 1]

C5_Witness ==
    /\ prog = "VGG19"
    /\ Len(stack) = 2
    /\ Top.mod.type = "Sequential"
    /\ Top.pc = 30
    /\ input[3] = 225 /\ input[4] = 224
    /\ x[3] = 7 /\ x[4] = 7

(* the per-layer count the claims state: a 3x3 convolution, a Linear       *)
ClaimedLayerParams(l) ==
    IF l.type = "Conv2d"
    THEN l.in_channels * l.out_channels * 9 + l.out_channels
    ELSE IF l.type = "Linear"
    THEN l.in_features * l.out_features + l.out_features
    ELSE 0

ClaimedSequentialParams(m) ==
    SeqSum([i \in 1..Len(m.layers) |-> ClaimedLayerParams(m.layers[i])])

SameParamColumn(table) ==
    /\ Len(rows) = Len(table)
    /\ \A i \in 1..Len(table) :
          /\ rows[i].type = table[i].type
          /\ rows[i].name = table[i].name
          /\ rows[i].params = table[i].params

(* C6: VGG19() has 134,228,008 parameters, all of them trainable; that is  *)
(* the sum of in*out*9 + out over its Conv2d layers and in*out + out over  *)
(* its Linear layers, and the summary's Param # column holds the values    *)
(* the notebook shows.                                                     *)
C6_VGGParams ==
    (prog = "1.0-vgg-19" /\ model.type = "VGG19") =>
        /\ TotalParams(model) = VGGTotalParams
        /\ TrainableParams(model) = VGGTrainableParams
        /\ TotalParams(model) - TrainableParams(model) = VGGNonTrainableParams
        /\ TotalParams(model) =
              ClaimedSequentialParams(model.feature_extractor)
              + ClaimedSequentialParams(model.classifier)
        /\ cell > 4 =>
              /\ SameParamColumn(VGGSummaryOutput)
              /\ SeqSum([i \in 1..Len(rows) |-> rows[i].params])
                    = VGGTotalParams

C6_Witness ==
    /\ prog = "1.0-vgg-19"
    /\ cell = 5
    /\ Len(rows) = 39
    /\ rows[3].params = 1792
    /\ rows[33].params = 102764544
    /\ rows[39].params = 4097000

MobileNetChannels ==
    << 64, 128, 128, 256, 256, 512, 512, 512, 512, 512, 512, 1024, 1024 >>

MobileNetSizes ==
    << 112, 56, 56, 28, 28, 14, 14, 14, 14, 14, 14, 7, 7 >>

HalvingLayers == {"conv1", "dw_conv3", "dw_conv5", "dw_conv7", "dw_conv13"}

IsBlockRow(r) == r.type = "DepthwiseSeparableConv"

BlockRows == SelectSeq(rows, IsBlockRow)

RowNamed(table, name) ==
    table[CHOOSE i \in 1..Len(table) :
             table[i].depth = 1 /\ table[i].name = name]

(* C7: on (1, 3, 224, 224) every module of MobileNet receives and returns  *)
(* the shapes of the summary table: conv1 (1,32,112,112), the thirteen     *)
(* blocks MobileNetChannels x MobileNetSizes, avg_pool (1,1024,1,1), the   *)
(* result (1,1000); the explicit forward pass passes through the same      *)
(* shapes; height is halved at exactly the HalvingLayers.                  *)
C7_MobileNetShapes ==
    prog = "1.2-mobile-net" =>
        /\ \A i \in 1..Len(rows) :
              /\ i <= Len(MobileNetSummaryOutput)
              /\ rows[i].input = MobileNetSummaryOutput[i].input
              /\ rows[i].output # << >> =>
                    rows[i].output = MobileNetSummaryOutput[i].output
        /\ cell > 4 =>
              /\ rows = MobileNetSummaryOutput
              /\ rows[1].output = << 1, 1000 >>
              /\ RowNamed(rows, "conv1").output = << 1, 32, 112, 112 >>
              /\ RowNamed(rows, "avg_pool").output = << 1, 1024, 1, 1 >>
              /\ Len(BlockRows) = Len(MobileNetChannels)
              /\ \A k \in 1..Len(BlockRows) :
                    /\ BlockRows[k].name = "dw_conv" \o ToString(k + 1)
                    /\ BlockRows[k].output =
                          << 1, MobileNetChannels[k], MobileNetSizes[k],
                             MobileNetSizes[k] >>
              /\ \A i \in 1..Len(rows) :
                    (rows[i].depth = 1 /\ Len(rows[i].output) = 4) =>
                       /\ (rows[i].input[3] = 2 * rows[i].output[3]
                             <=> rows[i].name \in HalvingLayers)
                       /\ (rows[i].input[4] = 2 * rows[i].output[4]
                             <=> rows[i].name \in HalvingLayers)
        /\ (mode = "forward" /\ Len(stack) = 1 /\ Top.pc > 1) =>
              LET prev == Body[Top.pc - 1]
              IN  prev.name # "" =>
                     x = RowNamed(MobileNetSummaryOutput, prev.name).output
        /\ cell > 5 => ret = << 1, 1000 >>
        /\ cell = 7 => out = [cell |-> 6, value |-> << 1, 1000 >>]

C7_Witness ==
    /\ prog = "1.2-mobile-net"
    /\ cell = 7
    /\ Len(rows) = 43
    /\ rows[39].output = << 1, 1024, 7, 7 >>
    /\ out = [cell |-> 6, value |-> << 1, 1000 >>]

(* the count the claim states for one block, stride playing no part        *)
ClaimedBlockParams(d) ==
    (d.depthwise.in_channels * 9 + d.depthwise.in_channels)
    + (d.depthwise.in_channels * d.pointwise.out_channels
       + d.pointwise.out_channels)

ClaimedMobileNetParams(m) ==
    896
    + SeqSum([i \in 1..13 |-> ClaimedBlockParams(Children(m)[i + 1].op)])
    + (1024 * 1000 + 1000)

(* C8: MobileNet() has 4,221,032 parameters, all of them trainable: 896    *)
(* for conv1, in*9 + in and in*out + out for the depthwise and pointwise   *)
(* convolution of every block, 1024*1000 + 1000 for fc; the summary's      *)
(* Param # column holds the values the notebook shows.                     *)
C8_MobileNetParams ==
    (prog = "1.2-mobile-net" /\ model.type = "MobileNet") =>
        /\ TotalParams(model) = MobileNetTotalParams
        /\ TrainableParams(model) = MobileNetTrainableParams
        /\ TotalParams(model) - TrainableParams(model)
              = MobileNetNonTrainableParams
        /\ OwnParams(model.conv1) = 896
        /\ OwnParams(model.fc) = 1024 * 1000 + 1000
        /\ \A i \in 2..14 :
              LET d == Children(model)[i].op
              IN  /\ OwnParams(d.depthwise) =
                        d.depthwise.in_channels * 9 + d.depthwise.in_channels
                  /\ OwnParams(d.pointwise) =
                        d.depthwise.in_channels * d.pointwise.out_channels
                        + d.pointwise.out_channels
        /\ TotalParams(model) = ClaimedMobileNetParams(model)
        /\ cell > 4 =>
              /\ SameParamColumn(MobileNetSummaryOutput)
              /\ SeqSum([i \in 1..Len(rows) |-> rows[i].params])
                    = MobileNetTotalParams

C8_Witness ==
    /\ prog = "1.2-mobile-net"
    /\ cell = 5
    /\ Len(rows) = 43
    /\ rows[2].params = 896
    /\ rows[4].params = 320
    /\ rows[5].params = 2112
    /\ rows[43].params = 1025000

OutSide(h, stride) == ((h - 1) \div stride) + 1

(* C9: DepthwiseSeparableConv(in, out, stride).forward on (N, in, H, W)    *)
(* is two steps: depthwise (3x3, padding 1, groups in) gives               *)
(* (N, in, floor((H-1)/stride)+1, floor((W-1)/stride)+1), then pointwise   *)
(* (1x1, stride 1, padding 0) gives the same with out channels, which is   *)
(* what forward returns.                                                   *)
C9_DepthwiseThenPointwise ==
    (prog = "DepthwiseSeparableConv" /\ input[2] = args.in_channels) =>
        LET N == input[1]
            Ho == OutSide(input[3], args.stride)
            Wo == OutSide(input[4], args.stride)
            B == ForwardBody(model)
        IN  /\ err = ""
            /\ Len(B) = 2
            /\ B[1] = Step("depthwise", model.depthwise)
            /\ B[2] = Step("pointwise", model.pointwise)
            /\ model.depthwise.type = "Conv2d"
            /\ model.depthwise.kernel_size = 3
            /\ model.depthwise.padding = 1
            /\ model.depthwise.groups = args.in_channels
            /\ model.pointwise.type = "Conv2d"
            /\ model.pointwise.kernel_size = 1
            /\ model.pointwise.stride = 1
            /\ model.pointwise.padding = 0
            /\ Len(stack) = 1 =>
                  /\ Top.pc = 1 => x = input
                  /\ Top.pc = 2 => x = << N, args.in_channels, Ho, Wo >>
                  /\ Top.pc = 3 => x = << N, args.out_channels, Ho, Wo >>
            /\ stack = << >> => ret = << N, args.out_channels, Ho, Wo >>

C9_Witness ==
    /\ prog = "DepthwiseSeparableConv"
    /\ args.in_channels = 1
    /\ args.out_channels = 2
    /\ args.stride = 2
    /\ input = << 2, 1, 2, 3 >>
    /\ stack = << >>
    /\ ret = << 2, 2, 1, 2 >>

ClassOf(nb) == IF nb = "1.0-vgg-19" THEN "VGG19" ELSE "MobileNet"

C10_Order ==
    /\ err = ""
    /\ n_init <= 1
    /\ n_forward <= 1
    /\ model.type # "None" => (ClassOf(prog) \in names /\ n_init = 1)
    /\ mode \in {"summary", "forward"} =>
          (n_init = 1 /\ "model" \in names /\ model.type = ClassOf(prog))
    /\ mode = "summary" => n_forward = 0
    /\ n_forward = 1 => rows # << >>
    /\ cell > Len(Cells(prog)) => (n_init = 1 /\ n_forward = 1)

C10_Frame ==
    /\ model.type # "None" => model' = model
    /\ names \subseteq names'
    /\ cell' \in {cell, cell + 1}
    /\ n_forward' # n_forward => (mode = "idle" /\ mode' = "forward")

(* C10: running a notebook's cells top to bottom, no cell uses a name not  *)
(* yet bound; the class is declared before the model is built, the model   *)
(* is built exactly once and before the summary and the forward pass, the  *)
(* cells call the model on the random input exactly once, after the        *)
(* summary, and the model is not replaced or changed once built.           *)
C10_FixedOrder == [](C10_Order) /\ [][C10_Frame]_vars

C10_Witness ==
    /\ prog = "1.2-mobile-net"
    /\ cell > Len(Cells(prog))
    /\ n_init = 1
    /\ n_forward = 1
    /\ Len(rows) = 43

====
